---------------------------- MODULE Spec2Model ----------------------------
(***************************************************************************)
(* Model of src/mmm_multicollinearity_streamlit.py: a Streamlit script     *)
(* that is re-run from top to bottom on every user interaction.  One       *)
(* action of the model is one run of the script: the sidebar radio picks   *)
(* the section, the widgets of that section supply the inputs, and a       *)
(* button click is an input of the run.                                    *)
(*                                                                         *)
(* State that survives a run: st.session_state.marketing_data,             *)
(* st.session_state.vif_scores and the process-global NumPy generator      *)
(* (np.random).  Everything else a run computes is local to the run; the   *)
(* variable out holds what the last run computed and displayed.            *)
(*                                                                         *)
(* Numbers are fixed point: spend and sales are integers in thousandths    *)
(* ("milli") of the displayed unit, so that round(2) and round(0) are real *)
(* quantisations.  Factors are in permille.                                *)
(***************************************************************************)
EXTENDS Integers, Sequences, FiniteSets, TLC

VARIABLES
    marketing_data,  \* st.session_state.marketing_data: None or the DataFrame
    vif_scores,      \* st.session_state.vif_scores: None or the VIF table
    rng,             \* state of the global np.random generator
    out,             \* what the last script run computed (locals of the run)
    gen_params,      \* history: widget values of the click that made marketing_data
    prior            \* history: what a Generate click found; None after other runs

vars == <<marketing_data, vif_scores, rng, out, gen_params, prior>>

(***************************************************************************)
(* Bounds of the model.                                                    *)
(***************************************************************************)
RngMod == 11        \* number of states of the modelled generator
WeeksSpan == 1      \* Generate clicks use n_weeks in MinWeeks..MinWeeks+WeeksSpan
SimSpan == 1        \* bootstrap runs use n_simulations in MinSim..MinSim+SimSpan

(***************************************************************************)
(* Program constants.                                                      *)
(***************************************************************************)
MinWeeks == 52      \* st.slider("Number of Weeks", 52, 208, 104)
MaxWeeks == 208
MinSim == 10        \* st.slider("Number of Bootstrap Samples", 10, 100, 50)
SeedValue == 42     \* np.random.seed(42)
CovScale == 200     \* cov = corr_matrices[correlation_level] * 200

None == <<>>        \* Python None; a DataFrame always has at least one row

channels == <<"TV", "Digital", "Social", "Search", "Email", "Radio">>
NCh == Len(channels)
Columns == {channels[i] : i \in 1..NCh} \cup {"Sales"}

\* options of the "Correlation Scenario" select_slider
Scenarios == {"Low (Ideal)", "Medium", "High (Problem)", "Extreme (Critical)"}

\* corr_matrices (lines 201-234), entries in hundredths
corr_matrices ==
    ("Low (Ideal)" :>
        << <<100, 30, 20, 10, 15, 25>>,
           <<30, 100, 25, 20, 10, 20>>,
           <<20, 25, 100, 15, 30, 10>>,
           <<10, 20, 15, 100, 35, 20>>,
           <<15, 10, 30, 35, 100, 25>>,
           <<25, 20, 10, 20, 25, 100>> >>) @@
    ("Medium" :>
        << <<100, 60, 50, 30, 40, 45>>,
           <<60, 100, 55, 40, 35, 50>>,
           <<50, 55, 100, 45, 60, 40>>,
           <<30, 40, 45, 100, 65, 50>>,
           <<40, 35, 60, 65, 100, 55>>,
           <<45, 50, 40, 50, 55, 100>> >>) @@
    ("High (Problem)" :>
        << <<100, 85, 75, 60, 70, 65>>,
           <<85, 100, 80, 65, 60, 70>>,
           <<75, 80, 100, 70, 85, 65>>,
           <<60, 65, 70, 100, 82, 75>>,
           <<70, 60, 85, 82, 100, 80>>,
           <<65, 70, 65, 75, 80, 100>> >>) @@
    ("Extreme (Critical)" :>
        << <<100, 95, 92, 88, 90, 85>>,
           <<95, 100, 94, 89, 87, 90>>,
           <<92, 94, 100, 91, 95, 88>>,
           <<88, 89, 91, 100, 93, 92>>,
           <<90, 87, 95, 93, 100, 94>>,
           <<85, 90, 88, 92, 94, 100>> >>)

mean == <<50, 40, 30, 25, 20, 15>>                   \* average spend levels
true_coefficients == <<25, 32, 28, 41, 15, 18>>      \* in tenths
black_friday_weeks == {46, 98, 150}

(***************************************************************************)
(* The global generator.  NumPy's Mersenne Twister is modelled as a        *)
(* counter-based generator with RngMod states: every draw advances the     *)
(* state by one and the value drawn is a fixed function of the state.      *)
(***************************************************************************)
RngStates == 0..(RngMod - 1)

\* np.random.seed(k)
Seed(k) == k % RngMod

\* the state after k further draws
Advance(s, k) == (s + k) % RngMod

\* the raw output of the generator in state s
Raw(s) == (s * 5 + 3) % RngMod

\* the k-th (k >= 0) standard normal draw from state s, quantised to -2..2
StdNormal(s, k) == (Raw(Advance(s, k)) % 5) - 2

\* the k-th element of np.random.choice(n, ...) from state s: uniform on 0..n-1
Choice(s, k, n) == (Raw(Advance(s, k)) * n) \div RngMod

(***************************************************************************)
(* Fixed-point helpers.                                                    *)
(***************************************************************************)
\* a sequence given by a rule, as an explicit tuple
Tuple(f) == SubSeq(f, 1, Len(f))

\* a function given by a rule, as an explicit table
Tabulate(f) == f @@ <<>>

\* T[k] where the table T has an entry for k, else the value v computed afresh
Memo(T, k, v) == IF k \in DOMAIN T THEN T[k] ELSE v

Max(a, b) == IF a >= b THEN a ELSE b

RECURSIVE SumTo(_, _)
\* sum of f[1..n]
SumTo(f, n) == IF n = 0 THEN 0 ELSE f[n] + SumTo(f, n - 1)

\* Series.round(2) on milli values: nearest hundredth
Round2(x) == ((x + 5) \div 10) * 10

\* Series.round(0) on milli values: nearest unit
Round0(x) == ((x + 500) \div 1000) * 1000

\* np.sin(2 * np.pi * t / 52) in permille (parabolic approximation per half period)
SinPermille(t) ==
    LET p == t % 52
        h == p % 26
        q == h * (26 - h)
        v == (4000 * q) \div (845 - q)
    IN  IF p < 26 THEN v ELSE 0 - v

\* seasonal_pattern[t] = 1 + 0.3 * sin(2 pi t / 52), permille
seasonal_pattern(t) == 1000 + (300 * SinPermille(t)) \div 1000

\* growth[t] = 1 + 0.002 * t, permille
growth(t) == 1000 + 2 * t

(***************************************************************************)
(* Generate Marketing Data button handler (lines 197-284).                 *)
(* p: [n_weeks, base_sales, correlation_level, noise_level, seasonality,   *)
(*     trend, outliers]; s: generator state after np.random.seed.          *)
(***************************************************************************)

RECURSIVE MixSum(_, _, _, _)
\* sum over k' in 1..k of cov[c][k'] * z[t][k'], cov = corr * 200, z the
\* standard normal draws of row t
MixSum(s, corrRow, t, k) ==
    IF k = 0 THEN 0
    ELSE ((corrRow[k] * CovScale) \div 100) * StdNormal(s, t * NCh + (k - 1))
         + MixSum(s, corrRow, t, k - 1)

\* np.random.multivariate_normal(mean, cov, n_weeks)[t][c], milli.  Row t
\* consumes NCh standard normal draws, mixed linearly through cov.
multivariate_normal(s, level, t, c) ==
    mean[c] * 1000 + 25 * MixSum(s, corr_matrices[level][c], t, NCh)

\* mutation of normal_noise: the noise is added before the seasonal pattern
\* is applied, and is scaled with it
normal_noise_Seasonal(s, p, t) ==
    LET sd == (p.base_sales * 1000 * p.noise_level) \div 100
    IN  IF p.seasonality
        THEN (sd * StdNormal(s, p.n_weeks * NCh + t) * (seasonal_pattern(t) \div 10))
             \div 100
        ELSE sd * StdNormal(s, p.n_weeks * NCh + t)

\* np.random.normal(0, base_sales * noise_level / 100, n_weeks)[t], milli; drawn
\* after the n_weeks * NCh draws of the spend matrix
normal_noise(s, p, t) ==
    LET sd == (p.base_sales * 1000 * p.noise_level) \div 100
    IN  sd * StdNormal(s, p.n_weeks * NCh + t)

\* mutation of ShapedSpend: np.maximum(spend_data, 0) is left out
ShapedSpend_Unclamped(s, p, t, c) ==
    LET sampled == multivariate_normal(s, p.correlation_level, t, c)
        seas    == IF p.seasonality
                   THEN (sampled * seasonal_pattern(t)) \div 1000 ELSE sampled
    IN  IF p.trend THEN (seas * growth(t)) \div 1000 ELSE seas

\* the channel value of week t after clamp, seasonality and trend
ShapedSpend(s, p, t, c) ==
    LET sampled == multivariate_normal(s, p.correlation_level, t, c)
        clamped == Max(sampled, 0)
        seas    == IF p.seasonality
                   THEN (clamped * seasonal_pattern(t)) \div 1000 ELSE clamped
        trnd    == IF p.trend THEN (seas * growth(t)) \div 1000 ELSE seas
    IN  trnd

\* df[channel] * true_coefficients[channel], milli
Contribution(x, c) == (x * true_coefficients[c]) \div 10

\* mutation of Outlier: the weeks are taken as one-based row numbers
Outlier_OneBased(p, t, x) ==
    IF p.outliers /\ (t + 1) \in black_friday_weeks /\ t + 1 < p.n_weeks
    THEN (x * 25) \div 10 ELSE x

\* df.iloc[week] *= 2.5 for the Black Friday weeks below n_weeks
Outlier(p, t, x) ==
    IF p.outliers /\ t \in black_friday_weeks /\ t < p.n_weeks
    THEN (x * 25) \div 10 ELSE x

\* row t of the DataFrame as it is stored
GenerateRow(s, p, t) ==
    LET tv      == ShapedSpend(s, p, t, 1)
        digital == ShapedSpend(s, p, t, 2)
        social  == ShapedSpend(s, p, t, 3)
        search  == ShapedSpend(s, p, t, 4)
        email   == ShapedSpend(s, p, t, 5)
        radio   == ShapedSpend(s, p, t, 6)
        sales   == p.base_sales * 1000
                   + Contribution(tv, 1) + Contribution(digital, 2)
                   + Contribution(social, 3) + Contribution(search, 4)
                   + Contribution(email, 5) + Contribution(radio, 6)
                   + normal_noise(s, p, t)
    IN  [TV      |-> Round2(Outlier(p, t, tv)),
         Digital |-> Round2(Outlier(p, t, digital)),
         Social  |-> Round2(Outlier(p, t, social)),
         Search  |-> Round2(Outlier(p, t, search)),
         Email   |-> Round2(Outlier(p, t, email)),
         Radio   |-> Round2(Outlier(p, t, radio)),
         Sales   |-> Round0(Outlier(p, t, sales))]

\* mutation of GenerateData: the last week is left out
GenerateData_Short(s, p) ==
    Tuple([i \in 1..(p.n_weeks - 1) |-> GenerateRow(s, p, i - 1)])

\* the DataFrame stored in the session: row i is week i - 1
GenerateData(s, p) == Tuple([i \in 1..p.n_weeks |-> GenerateRow(s, p, i - 1)])

\* the statements of the handler in order, by what they do (lines 198-284)
GenerateSteps ==
    <<"seed", "sampling", "clamping", "shaping", "outcome", "noise",
      "outliers", "rounding", "store">>

\* df[col] of week t in the handler's local DataFrame once the first k steps
\* have run, 2 <= k <= 8; col a channel
LocalSpend(s, p, t, col, k) ==
    LET c == CHOOSE i \in 1..NCh : channels[i] = col
        sampled == multivariate_normal(s, p.correlation_level, t, c)
        v == IF k >= 4 THEN ShapedSpend(s, p, t, c)
             ELSE IF k = 3 THEN Max(sampled, 0) ELSE sampled
        w == IF k >= 7 THEN Outlier(p, t, v) ELSE v
    IN  IF k >= 8 THEN Round2(w) ELSE w

\* df['Sales'] of week t in the local DataFrame once the first k steps have
\* run, 5 <= k <= 8
LocalSales(s, p, t, k) ==
    LET part(c) == Contribution(ShapedSpend(s, p, t, c), c)
        v == p.base_sales * 1000 + part(1) + part(2) + part(3) + part(4)
             + part(5) + part(6)
             + (IF k >= 6 THEN normal_noise(s, p, t) ELSE 0)
        w == IF k >= 7 THEN Outlier(p, t, v) ELSE v
    IN  IF k >= 8 THEN Round0(w) ELSE w

\* the handler's local data once the first k steps have run: nothing before
\* the sampling, the channel columns up to the shaping, all columns after
GenerateLocal(s, p, k) ==
    IF k < 2 THEN None
    ELSE Tuple([i \in 1..p.n_weeks |->
             [col \in (IF k >= 5 THEN Columns ELSE Columns \ {"Sales"}) |->
                 IF col = "Sales" THEN LocalSales(s, p, i - 1, k)
                 ELSE LocalSpend(s, p, i - 1, col, k)]])

\* the number of draws a Generate click takes from the generator
GenerateDraws(p) == p.n_weeks * NCh + p.n_weeks

\* mutation of GenerateSeedState: the handler does not seed the generator
GenerateSeedState_Unseeded(r) == r

\* np.random.seed(42), first statement of the handler: the state sampling
\* starts from, whatever state r the run found the generator in
GenerateSeedState(r) == Seed(SeedValue)

\* mutation of StoreStep: the DataFrame is put in the session right after it
\* is created, before the patterns, the outcome and the rounding
StoreStep_Early == Len(GenerateSteps) - 6

\* the position of st.session_state.marketing_data = df among the steps
\* (line 284): the last one
StoreStep == Len(GenerateSteps)

\* the generator after the handler raised in step k from generator state r:
\* the steps before k have run
RaisedRng(r, p, k) ==
    IF k = 1 THEN r
    ELSE Advance(GenerateSeedState(r),
                 (IF k > 2 THEN p.n_weeks * NCh ELSE 0)
                 + (IF k > 6 THEN p.n_weeks ELSE 0))

\* the session's dataset after the handler raised in step k: the session holds
\* the object assigned to it, with every later in-place change
RaisedData(md, r, p, k) ==
    IF StoreStep < k THEN GenerateLocal(GenerateSeedState(r), p, k - 1) ELSE md

\* widget values a Generate click can carry in a session
SessionParams ==
    [n_weeks : MinWeeks..(MinWeeks + WeeksSpan),
     base_sales : {500},
     correlation_level : Scenarios,
     noise_level : {15},
     seasonality : {TRUE},
     trend : {TRUE},
     outliers : {TRUE}]
    \cup
    [n_weeks : {MinWeeks},
     base_sales : {100},
     correlation_level : {"Low (Ideal)"},
     noise_level : {30},
     seasonality : {TRUE},
     trend : {FALSE},
     outliers : {FALSE}]

\* widget values of the clicks whose handler is taken to raise
RaisingParams == {p \in SessionParams : p.correlation_level = "High (Problem)"}

\* the datasets a seeded Generate click produces, tabulated
GenerateDataMemo ==
    Tabulate([k \in {Seed(SeedValue)} \X SessionParams |->
                 GenerateData(k[1], k[2])])

(***************************************************************************)
(* Vectors and matrices.  A matrix is a sequence of rows, a row a sequence *)
(* of NCh numbers.                                                         *)
(***************************************************************************)

\* df[channels].values
ChannelValues(df) ==
    [i \in 1..Len(df) |->
        <<df[i].TV, df[i].Digital, df[i].Social, df[i].Search, df[i].Email,
          df[i].Radio>>]

\* df['Sales'].values
SalesValues(df) == [i \in 1..Len(df) |-> df[i].Sales]

RECURSIVE SumSeq(_, _)
\* v[1] + ... + v[n]
SumSeq(v, n) == IF n = 0 THEN 0 ELSE v[n] + SumSeq(v, n - 1)

RECURSIVE SumCol(_, _, _)
\* M[1][j] + ... + M[n][j]
SumCol(M, j, n) == IF n = 0 THEN 0 ELSE M[n][j] + SumCol(M, j, n - 1)

\* integer square root
RECURSIVE ISqrtIn(_, _, _)
ISqrtIn(v, lo, hi) ==
    IF lo >= hi THEN lo
    ELSE LET mid == (lo + hi + 1) \div 2
         IN  IF mid * mid <= v THEN ISqrtIn(v, mid, hi) ELSE ISqrtIn(v, lo, mid - 1)

ISqrt(v) == ISqrtIn(v, 0, 40000)

Abs(a) == IF a >= 0 THEN a ELSE 0 - a

\* float('inf')
Inf == 2000000000

(***************************************************************************)
(* Detect Multicollinearity (lines 404-607).                               *)
(* variance_inflation_factor is statsmodels': 1 / (1 - R2_i), R2_i the     *)
(* uncentred R2 of an OLS of column i on the other columns (no constant    *)
(* is added to X).  The multiple regression is modelled by its best        *)
(* single regressor: R2_i is the largest uncentred r2 of column i with     *)
(* another column.  Second moments are taken on whole units.  VIF is in    *)
(* hundredths, R2 in permille.                                             *)
(***************************************************************************)
RECURSIVE CrossSum(_, _, _, _)
\* sum over rows 1..n of X[r][i] * X[r][j], in whole units
CrossSum(X, i, j, n) ==
    IF n = 0 THEN 0
    ELSE (X[n][i] \div 1000) * (X[n][j] \div 1000) + CrossSum(X, i, j, n - 1)

\* uncentred r2 of columns i and j, permille
UncentredR2(X, i, j) ==
    LET n   == Len(X)
        sij == CrossSum(X, i, j, n)
        sii == CrossSum(X, i, i, n)
        sjj == CrossSum(X, j, j, n)
    IN  IF sii = 0 \/ sjj = 0 THEN 0
        ELSE (((sij * 1000) \div sii) * ((sij * 1000) \div sjj)) \div 1000

RECURSIVE MaxR2(_, _, _)
\* the largest r2 of column i with a column j <= k, j # i
MaxR2(X, i, k) ==
    IF k = 0 THEN 0
    ELSE IF k = i THEN MaxR2(X, i, k - 1)
    ELSE Max(UncentredR2(X, i, k), MaxR2(X, i, k - 1))

\* variance_inflation_factor(X, i), hundredths
variance_inflation_factor(X, i) ==
    LET r2 == MaxR2(X, i, NCh)
    IN  IF r2 >= 1000 THEN Inf ELSE 100000 \div (1000 - r2)

\* the Status column (line 490); vif in hundredths
Status(vif_value) ==
    IF vif_value < 500 THEN "Good"
    ELSE IF vif_value < 1000 THEN "Warning"
    ELSE "Critical"

\* vif_data (lines 484-491) for the VIF values v, one row a channel
VifRows(v) ==
    Tuple([i \in 1..NCh |->
              [Channel |-> channels[i], VIF |-> v[i], Status |-> Status(v[i])]])

\* vif_df (lines 483-493)
VifTable(df) ==
    LET X == ChannelValues(df)
    IN  VifRows(Tuple([i \in 1..NCh |-> variance_inflation_factor(X, i)]))

RECURSIVE MaxVif(_, _)
\* vif_df['VIF'].max() over the first n rows
MaxVif(vif_df, n) ==
    IF n = 1 THEN vif_df[1].VIF ELSE Max(vif_df[n].VIF, MaxVif(vif_df, n - 1))

\* the Max VIF verdict (lines 547-554)
MaxVifVerdict(max_vif) ==
    IF max_vif > 2000 THEN "Severe"
    ELSE IF max_vif > 1000 THEN "High"
    ELSE IF max_vif > 500 THEN "Moderate"
    ELSE "Low"

\* channels_warning = (vif_df['VIF'] > 5).sum() (line 557)
channels_warning(vif_df) ==
    Cardinality({i \in 1..NCh : vif_df[i].VIF > 500})

\* channels_critical = (vif_df['VIF'] > 10).sum() (line 567)
channels_critical(vif_df) ==
    Cardinality({i \in 1..NCh : vif_df[i].VIF > 1000})

\* the message under "What This Means For You" (lines 580-607)
WhatThisMeansForYou(max_vif) ==
    IF max_vif > 1000 THEN "serious multicollinearity issues"
    ELSE IF max_vif > 500 THEN "Moderate multicollinearity detected"
    ELSE "Your data looks good"

\* the VIF tables of the seeded datasets, tabulated
VifTableMemo ==
    Tabulate([df \in {GenerateDataMemo[k] : k \in DOMAIN GenerateDataMemo} |->
                 VifTable(df)])

(***************************************************************************)
(* Visualize the Problem: Run Bootstrap Analysis (lines 660-679).          *)
(* LinearRegression is scikit-learn's.  The fitted coefficient of a        *)
(* feature is modelled by its marginal least-squares slope (the            *)
(* coefficient OLS gives when the features are orthogonal), in hundredths. *)
(***************************************************************************)

\* mutation of SampleSize: one draw fewer than the dataset has rows
SampleSize_Short(n) == n - 1

\* size=len(df) (line 666): the number of row indices one resample draws
SampleSize(n) == n

\* sample_idx = np.random.choice(len(df), size=len(df), replace=True), drawn
\* from generator state s
sample_idx(s, n) == Tuple([k \in 1..SampleSize(n) |-> Choice(s, k - 1, n)])

RECURSIVE SampleSum(_, _, _, _)
\* sum of column col over the resampled rows idx[1..k], whole units
SampleSum(df, idx, col, k) ==
    IF k = 0 THEN 0
    ELSE df[idx[k] + 1][col] \div 1000 + SampleSum(df, idx, col, k - 1)

RECURSIVE SampleCross(_, _, _, _, _)
\* sum over the resampled rows idx[1..k] of colx * coly, whole units
SampleCross(df, idx, colx, coly, k) ==
    IF k = 0 THEN 0
    ELSE (df[idx[k] + 1][colx] \div 1000) * (df[idx[k] + 1][coly] \div 1000)
         + SampleCross(df, idx, colx, coly, k - 1)

\* model.coef_[j] of LinearRegression().fit(sample_df[channels], sample_df['Sales'])
BootstrapCoef(df, idx, j) ==
    LET n   == Len(idx)
        sx  == SampleSum(df, idx, channels[j], n)
        sy  == SampleSum(df, idx, "Sales", n)
        sxy == SampleCross(df, idx, channels[j], "Sales", n) - (sx * sy) \div n
        sxx == SampleCross(df, idx, channels[j], channels[j], n) - (sx * sx) \div n
    IN  IF sxx = 0 THEN 0 ELSE (sxy * 100) \div sxx

\* one pass of the loop body (lines 665-677) with the generator in state s
BootstrapIteration(df, s) ==
    LET idx == sample_idx(s, Len(df))
    IN  [sample_idx |-> idx,
         coef_      |-> Tuple([j \in 1..NCh |-> BootstrapCoef(df, idx, j)])]

\* values of the "Number of Bootstrap Samples" slider used in a session
SessionSims == MinSim..(MinSim + SimSpan)

\* the loop bodies on the seeded datasets, tabulated
BootstrapIterationMemo ==
    Tabulate([k \in {GenerateDataMemo[g] : g \in DOMAIN GenerateDataMemo}
                    \X RngStates |->
                 BootstrapIteration(k[1], k[2])])

\* the bootstrap loop from generator state s: the resampled indices of every
\* pass and coefficients[j], the list of n_simulations coefficients of channel j
Bootstrap(df, s, n_simulations) ==
    LET n    == Len(df)
        pass == Tuple([it \in 1..n_simulations |->
                          Memo(BootstrapIterationMemo,
                               <<df, Advance(s, (it - 1) * n)>>,
                               BootstrapIteration(df, Advance(s, (it - 1) * n)))])
    IN  [sample_idx   |-> Tuple([it \in 1..n_simulations |-> pass[it].sample_idx]),
         coefficients |-> Tuple([j \in 1..NCh |->
                              Tuple([it \in 1..n_simulations |-> pass[it].coef_[j]])])]

\* the number of draws a bootstrap run takes from the generator
BootstrapDraws(df, n_simulations) == n_simulations * Len(df)

(***************************************************************************)
(* Compare Solutions (lines 863-1209).                                     *)
(* X is in milli; standardised features are in permille of a standard      *)
(* deviation; y is taken in whole units; coefficients are in y units per   *)
(* standard deviation; R2 scores are in permille.                          *)
(*                                                                         *)
(* The estimators are scikit-learn's.  A fit is modelled by one sweep of   *)
(* coordinate descent over the features: the least squares slope on the    *)
(* residual so far, shrunk by the L2 penalty and soft-thresholded by the   *)
(* L1 penalty.  PCA is modelled by the principal                           *)
(* axes of an equicorrelated design (the Helmert basis).  A regression on  *)
(* one feature (the residualization step) is exact.                        *)
(***************************************************************************)

\* column j of a matrix
Col(M, j) == Tuple([r \in 1..Len(M) |-> M[r][j]])

RECURSIVE Cross(_, _, _, _, _, _, _)
\* sum over r in 1..n of ((u[r] - mu) \div du) * ((v[r] - mv) \div dv)
Cross(u, mu, du, v, mv, dv, n) ==
    IF n = 0 THEN 0
    ELSE ((u[n] - mu) \div du) * ((v[n] - mv) \div dv)
         + Cross(u, mu, du, v, mv, dv, n - 1)

\* mean of a non-empty vector
MeanOf(v) == SumSeq(v, Len(v)) \div Len(v)

\* StandardScaler().fit(rows): per column mean_ (milli) and scale_ (tenths of a
\* unit), the population standard deviation; a zero scale is replaced by 1
ScalerFit(rows) ==
    LET fitcol(j) ==
            LET c == Col(rows, j)
                m == MeanOf(c)
                v == Cross(c, m, 100, c, m, 100, Len(c)) \div Len(c)
                sd == ISqrt(v)
            IN  <<m, IF sd = 0 THEN 1 ELSE sd>>
        st == Tuple([j \in 1..NCh |-> fitcol(j)])
    IN  [mean_  |-> Tuple([j \in 1..NCh |-> st[j][1]]),
         scale_ |-> Tuple([j \in 1..NCh |-> st[j][2]])]

\* scaler.transform(rows)
ScalerTransform(scaler, rows) ==
    Tuple([r \in 1..Len(rows) |->
        Tuple([j \in 1..NCh |->
            ((rows[r][j] - scaler.mean_[j]) * 10) \div scaler.scale_[j]])])

\* the rows scaler.fit_transform(X) is fitted on (line 874): all of X, before
\* the split
ScalerFitRows(X) == X

\* scaler = StandardScaler() once fit_transform(X) has fitted it
CompareScaler(X) == ScalerFit(ScalerFitRows(X))

\* mutation of TrainSize: int(round(0.8 * len(X)))
TrainSize_Rounded(n) == (8 * n + 5) \div 10

\* train_size = int(0.8 * len(X))
TrainSize(n) == (8 * n) \div 10

\* the split of lines 876-879: rows[:train_size] and rows[train_size:]
SplitRows(rows, train_size) ==
    [train |-> SubSeq(rows, 1, train_size),
     test  |-> SubSeq(rows, train_size + 1, Len(rows))]

\* soft-thresholding operator of the L1 penalty
Soft(t, thr) ==
    IF t > thr THEN t - thr ELSE IF t < 0 - thr THEN t + thr ELSE 0

RECURSIVE FitSweep(_, _, _, _, _, _, _)
\* one sweep of coordinate descent from feature j on: r is the residual the
\* earlier features left, fit the model fitted so far
FitSweep(j, k, D, r, l1, l2, fit) ==
    IF j > k THEN fit
    ELSE LET c   == Col(D, j)
             mx  == MeanOf(c)
             sxx == Cross(c, mx, 10, c, mx, 10, Len(D))
             sxy == Cross(c, mx, 10, r, 0, 1, Len(D))
             w   == IF sxx + l2 = 0 THEN 0
                    ELSE (Soft(sxy, l1) * 100) \div (sxx + l2)
             r2  == Tuple([i \in 1..Len(D) |-> r[i] - (w * (c[i] - mx)) \div 1000])
         IN  FitSweep(j + 1, k, D, r2, l1, l2,
                      [fit EXCEPT !.coef_ = Append(@, w),
                                  !.x_mean = Append(@, mx)])

\* model.fit(D, y) on the first k features of D; l1 is the L1 threshold and l2
\* the L2 term, both already scaled to the sums of squares
FitModel(D, y, k, l1, l2) ==
    LET my == MeanOf(y)
        r  == Tuple([i \in 1..Len(D) |-> y[i] - my])
    IN  FitSweep(1, k, D, r, l1, l2,
                 [coef_ |-> <<>>, x_mean |-> <<>>, y_mean |-> my])

RECURSIVE PredictRow(_, _, _)
\* sum over j in 1..k of coef_[j] * (row[j] - x_mean[j])
PredictRow(model, row, k) ==
    IF k = 0 THEN 0
    ELSE (model.coef_[k] * (row[k] - model.x_mean[k])) \div 1000
         + PredictRow(model, row, k - 1)

\* model.predict(D)
Predict(model, D) ==
    Tuple([r \in 1..Len(D) |->
        model.y_mean + PredictRow(model, D[r], Len(model.coef_))])

\* mutation of Score: a negative R2 is reported as zero
Score_Clamped(model, D, y) ==
    LET m     == Len(D)
        pred  == Predict(model, D)
        res   == Tuple([r \in 1..m |-> y[r] - pred[r]])
        ssres == Cross(res, 0, 10, res, 0, 10, m)
        my    == MeanOf(y)
        sstot == Cross(y, my, 10, y, my, 10, m)
    IN  Max(0, 1000 - ssres \div Max(1, sstot \div 1000))

\* model.score(D, y): R2 = 1 - SSres / SStot, permille; not clamped
Score(model, D, y) ==
    LET m     == Len(D)
        pred  == Predict(model, D)
        res   == Tuple([r \in 1..m |-> y[r] - pred[r]])
        ssres == Cross(res, 0, 10, res, 0, 10, m)
        my    == MeanOf(y)
        sstot == Cross(y, my, 10, y, my, 10, m)
    IN  1000 - ssres \div Max(1, sstot \div 1000)

\* slider defaults, hundredths
ridge_alpha == 100
lasso_alpha == 10
elastic_ratio == 50

\* the models dict (lines 930-935), in insertion order, with the penalties of
\* each estimator for a training set of m rows
ModelNames == <<"OLS (No Regularization)", "Ridge (L2)", "Lasso (L1)", "Elastic Net">>

ModelL1(name, m) ==
    CASE name = "Lasso (L1)"  -> lasso_alpha * m
      [] name = "Elastic Net" -> ((lasso_alpha * elastic_ratio) \div 100) * m
      [] OTHER -> 0

ModelL2(name, m) ==
    CASE name = "Ridge (L2)"  -> ridge_alpha * 100
      [] name = "Elastic Net" -> lasso_alpha * (100 - elastic_ratio) * m
      [] OTHER -> 0

\* principal axes: row k of the Helmert basis and its norm in permille
Helmert(k, c) ==
    IF k = 1 THEN 1
    ELSE IF c < k THEN 1 ELSE IF c = k THEN 1 - k ELSE 0

HelmertNorm == <<2449, 1414, 2449, 3464, 4472, 5477>>

RECURSIVE Project(_, _, _, _)
\* sum over c in 1..n of Helmert(k, c) * (row[c] - mu[c])
Project(row, mu, k, n) ==
    IF n = 0 THEN 0
    ELSE Helmert(k, n) * (row[n] - mu[n]) + Project(row, mu, k, n - 1)

\* pca.fit(rows): the centre of the rows
PcaFit(rows) == Tuple([c \in 1..NCh |-> MeanOf(Col(rows, c))])

\* pca.transform(rows) with n_components components
PcaTransform(pca_mean, rows, n_components) ==
    Tuple([r \in 1..Len(rows) |->
        Tuple([k \in 1..n_components |->
            (Project(rows[r], pca_mean, k, NCh) * 1000) \div HelmertNorm[k]])])

\* residual_model.fit(F[:, b], F[:, i]): slope in permille and intercept
ResidualModel(F, b, i) ==
    LET xb  == Col(F, b)
        xi  == Col(F, i)
        mb  == MeanOf(xb)
        mi  == MeanOf(xi)
        sxx == Cross(xb, mb, 10, xb, mb, 10, Len(F))
        sxy == Cross(xb, mb, 10, xi, mi, 10, Len(F))
        slope == IF sxx = 0 THEN 0 ELSE (sxy * 1000) \div sxx
    IN  [slope |-> slope, intercept |-> mi - (slope * mb) \div 1000]

\* residual_model.predict(x)
ResidualPredict(rm, x) == rm.intercept + (rm.slope * x) \div 1000

\* the rows residual_model is fitted on (line 980): the training split
ResidualFitRows(X_train, X_test) == X_train

\* mutation of ResidualRegressor: each channel is regressed on the channel
\* before it, a Gram-Schmidt chain
ResidualRegressor_Previous(base_channel_idx, i) ==
    IF i = 1 THEN base_channel_idx ELSE i - 1

\* the column residual_model regresses on (line 980): the base channel
ResidualRegressor(base_channel_idx, i) == base_channel_idx

\* M with column i replaced by the vector v
WithCol(M, i, v) ==
    Tuple([r \in 1..Len(M) |->
        Tuple([j \in 1..NCh |-> IF j = i THEN v[r] ELSE M[r][j]])])

\* one pass of the loop of lines 976-984, for channel i: acc = <<X_train_resid,
\* X_test_resid, residual models>> as the earlier passes left them
ResidPass(i, X_train, X_test, base_channel_idx, acc) ==
    IF i = base_channel_idx THEN <<acc[1], acc[2], Append(acc[3], None)>>
    ELSE LET g  == ResidualRegressor(base_channel_idx, i)
             rm == ResidualModel(ResidualFitRows(X_train, X_test), g, i)
             tr == Tuple([r \in 1..Len(X_train) |->
                       X_train[r][i] - ResidualPredict(rm, X_train[r][g])])
             te == Tuple([r \in 1..Len(X_test) |->
                       X_test[r][i] - ResidualPredict(rm, X_test[r][g])])
         IN  <<WithCol(acc[1], i, tr), WithCol(acc[2], i, te),
               Append(acc[3], <<rm>>)>>

RECURSIVE ResidLoop(_, _, _, _, _)
\* the loop of lines 976-984 from channel i on
ResidLoop(i, X_train, X_test, base_channel_idx, acc) ==
    IF i > NCh THEN [X_train_resid |-> acc[1], X_test_resid |-> acc[2],
                     residual_models |-> acc[3]]
    ELSE ResidLoop(i + 1, X_train, X_test, base_channel_idx,
                   ResidPass(i, X_train, X_test, base_channel_idx, acc))

\* lines 869-879 and the loop over models (lines 940-952): what the run
\* computes whatever the PCA and residualization widgets say
ComparePrep(df) ==
    LET X        == Tuple(ChannelValues(df))
        y        == Tuple([r \in 1..Len(df) |-> df[r].Sales \div 1000])
        scaler   == CompareScaler(X)
        X_scaled == ScalerTransform(scaler, X)
        n        == Len(X)
        train_size == TrainSize(n)
        X_train  == SplitRows(X_scaled, train_size).train
        X_test   == SplitRows(X_scaled, train_size).test
        y_train  == SplitRows(y, train_size).train
        y_test   == SplitRows(y, train_size).test
        fitted   == Tuple([k \in 1..Len(ModelNames) |->
                        FitModel(X_train, y_train, NCh,
                                 ModelL1(ModelNames[k], train_size),
                                 ModelL2(ModelNames[k], train_size))])
        record(k) ==
            LET train_score == Score(fitted[k], X_train, y_train)
                test_score  == Score(fitted[k], X_test, y_test)
            IN  [Method |-> ModelNames[k], Train |-> train_score,
                 Test |-> test_score, Gap |-> train_score - test_score]
    IN  [scaler |-> scaler, train_size |-> train_size,
         X_train |-> X_train, X_test |-> X_test,
         y_train |-> y_train, y_test |-> y_test,
         results |-> Tuple([k \in 1..Len(ModelNames) |-> record(k)]),
         coefficients_comparison |->
             Tuple([k \in 1..Len(ModelNames) |->
                 [Method |-> ModelNames[k], coef |-> fitted[k].coef_]])]

\* the PCA approach (lines 955-967): the record appended to results
PcaRecord(prep, n_components) ==
    LET pca_mean    == PcaFit(prep.X_train)
        X_train_pca == PcaTransform(pca_mean, prep.X_train, n_components)
        X_test_pca  == PcaTransform(pca_mean, prep.X_test, n_components)
        pca_model   == FitModel(X_train_pca, prep.y_train, n_components, 0, 0)
        train_score == Score(pca_model, X_train_pca, prep.y_train)
        test_score  == Score(pca_model, X_test_pca, prep.y_test)
    IN  [Method |-> "PCA", n_components |-> n_components,
         Train |-> train_score, Test |-> test_score,
         Gap |-> train_score - test_score]

\* the residualization approach (lines 971-999): the design matrices, the
\* record appended to results and the column added to coefficients_comparison
Residualization(prep, base_channel_idx) ==
    LET loop == ResidLoop(1, prep.X_train, prep.X_test, base_channel_idx,
                          <<prep.X_train, prep.X_test, <<>>>>)
        resid_model == FitModel(loop.X_train_resid, prep.y_train, NCh, 0, 0)
        train_score == Score(resid_model, loop.X_train_resid, prep.y_train)
        test_score  == Score(resid_model, loop.X_test_resid, prep.y_test)
    IN  [X_train_resid |-> loop.X_train_resid,
         X_test_resid  |-> loop.X_test_resid,
         record |-> [Method |-> "Residualized", base |-> channels[base_channel_idx],
                     Train |-> train_score, Test |-> test_score,
                     Gap |-> train_score - test_score],
         column |-> [Method |-> "Residualized", base |-> channels[base_channel_idx],
                     coef |-> resid_model.coef_]]

\* mutation of Recommendation: without a stored VIF table the run goes on to
\* the branches and shows the last one
Recommendation_Default(vif) ==
    IF vif = None THEN "Low"
    ELSE IF MaxVif(vif, NCh) > 1000 THEN "Severe"
    ELSE IF MaxVif(vif, NCh) > 500 THEN "Moderate" ELSE "Low"

\* the method recommendation (lines 1173-1209): none while no VIF table is stored
Recommendation(vif) ==
    IF vif = None THEN "none"
    ELSE LET max_vif == MaxVif(vif, NCh)
         IN  IF max_vif > 1000 THEN "Severe"
             ELSE IF max_vif > 500 THEN "Moderate" ELSE "Low"

\* the comparisons on the seeded datasets, tabulated
SeededData == {GenerateDataMemo[g] : g \in DOMAIN GenerateDataMemo}

ComparePrepMemo == Tabulate([df \in SeededData |-> ComparePrep(df)])

PcaRecordMemo ==
    Tabulate([k \in SeededData \X (1..NCh) |->
                 PcaRecord(ComparePrepMemo[k[1]], k[2])])

ResidualizationMemo ==
    Tabulate([k \in SeededData \X (1..NCh) |->
                 Residualization(ComparePrepMemo[k[1]], k[2])])

(***************************************************************************)
(* Script runs.                                                            *)
(***************************************************************************)
Init ==
    /\ marketing_data = None
    /\ vif_scores = None
    /\ rng \in RngStates          \* seeded from OS entropy at process start
    /\ out = [section |-> "start"]
    /\ gen_params = None
    /\ prior = None

\* section "Introduction & Theory": static text only
Introduction ==
    /\ out' = [section |-> "Introduction & Theory"]
    /\ prior' = None
    /\ UNCHANGED <<marketing_data, vif_scores, rng, gen_params>>

\* the dataset the handler builds once the generator is in state s
GenerateDataOf(s, p) == Memo(GenerateDataMemo, <<s, p>>, GenerateData(s, p))

\* st.session_state.marketing_data.to_csv() (line 372): the header line and
\* one line per row.  The DataFrame's index (dates, a weekly date_range from
\* 2022-01-01, line 245) is written as the first column under an empty name;
\* a date is given as its number of days after 2022-01-01.
to_csv(df) ==
    [header |-> <<"">> \o channels \o <<"Sales">>,
     rows   |-> Tuple([i \in 1..Len(df) |->
                    <<1 + 7 * (i - 1)>> \o
                    <<df[i].TV, df[i].Digital, df[i].Social, df[i].Search,
                      df[i].Email, df[i].Radio, df[i].Sales>>])]

\* mutation of GenerateClick: the handler also clears the stored VIF table
GenerateClick_ResetsVif(p) ==
    /\ marketing_data' = GenerateDataOf(GenerateSeedState(rng), p)
    /\ rng' = Advance(GenerateSeedState(rng), GenerateDraws(p))
    /\ out' = [section |-> "Generate Marketing Data", clicked |-> TRUE,
               params |-> p,
               csv |-> to_csv(GenerateDataOf(GenerateSeedState(rng), p))]
    /\ gen_params' = <<p>>
    /\ prior' = <<[repeat |-> (gen_params = <<p>>),
                   seeded |-> (rng = Seed(SeedValue))]>>
    /\ vif_scores' = None

\* section "Generate Marketing Data", button clicked
GenerateClick(p) ==
    /\ marketing_data' = GenerateDataOf(GenerateSeedState(rng), p)
    /\ rng' = Advance(GenerateSeedState(rng), GenerateDraws(p))
    /\ out' = [section |-> "Generate Marketing Data", clicked |-> TRUE,
               params |-> p,
               csv |-> to_csv(GenerateDataOf(GenerateSeedState(rng), p))]
    /\ gen_params' = <<p>>
    /\ prior' = <<[repeat |-> (gen_params = <<p>>),
                   seeded |-> (rng = Seed(SeedValue))]>>
    /\ UNCHANGED vif_scores

\* section "Generate Marketing Data", button clicked, and step k of the handler
\* raises: the run ends there and the page shows the exception
GenerateRaises(p, k) ==
    /\ marketing_data' = RaisedData(marketing_data, rng, p, k)
    /\ rng' = RaisedRng(rng, p, k)
    /\ out' = [section |-> "Generate Marketing Data", clicked |-> TRUE,
               params |-> p, raised |-> GenerateSteps[k]]
    /\ prior' = None
    /\ UNCHANGED <<vif_scores, gen_params>>

\* section "Generate Marketing Data", button not clicked: shows the stored data
\* and offers it as a CSV download (lines 287-378)
GenerateView ==
    /\ out' = IF marketing_data = None
              THEN [section |-> "Generate Marketing Data", clicked |-> FALSE]
              ELSE [section |-> "Generate Marketing Data", clicked |-> FALSE,
                    csv |-> to_csv(marketing_data)]
    /\ prior' = None
    /\ UNCHANGED <<marketing_data, vif_scores, rng, gen_params>>

\* the VIF table of the stored dataset
VifTableOf(df) == Memo(VifTableMemo, df, VifTable(df))

\* what a Detect run that computed vif_df displays
DetectOut(vif_df) ==
    [section |-> "Detect Multicollinearity", warning |-> FALSE,
     vif_df |-> vif_df, verdict |-> MaxVifVerdict(MaxVif(vif_df, NCh)),
     channels_warning |-> channels_warning(vif_df),
     channels_critical |-> channels_critical(vif_df),
     means |-> WhatThisMeansForYou(MaxVif(vif_df, NCh))]

\* section "Detect Multicollinearity"
Detect ==
    IF marketing_data = None
    THEN /\ out' = [section |-> "Detect Multicollinearity", warning |-> TRUE]
         /\ prior' = None
         /\ UNCHANGED <<marketing_data, vif_scores, rng, gen_params>>
    ELSE /\ vif_scores' = VifTableOf(marketing_data)
         /\ out' = DetectOut(VifTableOf(marketing_data))
         /\ prior' = None
         /\ UNCHANGED <<marketing_data, rng, gen_params>>

\* section "Visualize the Problem", button not clicked
Visualize ==
    /\ out' = [section |-> "Visualize the Problem",
               warning |-> (marketing_data = None), ran |-> FALSE]
    /\ prior' = None
    /\ UNCHANGED <<marketing_data, vif_scores, rng, gen_params>>

\* what a bootstrap run that computed b displays
BootstrapOut(n_simulations, b) ==
    [section |-> "Visualize the Problem", warning |-> FALSE, ran |-> TRUE,
     n_simulations |-> n_simulations,
     sample_idx |-> b.sample_idx, coefficients |-> b.coefficients]

\* mutation of RunBootstrap: the first resample is written back to the session
RunBootstrap_WritesBack(n_simulations) ==
    /\ marketing_data # None
    /\ marketing_data' =
           Tuple([i \in 1..Len(marketing_data) |->
               marketing_data[sample_idx(rng, Len(marketing_data))[i] + 1]])
    /\ rng' = Advance(rng, BootstrapDraws(marketing_data, n_simulations))
    /\ out' = BootstrapOut(n_simulations,
                           Bootstrap(marketing_data, rng, n_simulations))
    /\ prior' = None
    /\ UNCHANGED <<vif_scores, gen_params>>

\* section "Visualize the Problem", "Run Bootstrap Analysis" clicked; the button
\* is rendered only when a dataset is stored
RunBootstrap(n_simulations) ==
    /\ marketing_data # None
    /\ rng' = Advance(rng, BootstrapDraws(marketing_data, n_simulations))
    /\ out' = BootstrapOut(n_simulations,
                           Bootstrap(marketing_data, rng, n_simulations))
    /\ prior' = None
    /\ UNCHANGED <<marketing_data, vif_scores, gen_params>>

\* the comparison of the stored dataset
ComparePrepOf(df) == Memo(ComparePrepMemo, df, ComparePrep(df))

PcaRecordOf(df, n_components) ==
    Memo(PcaRecordMemo, <<df, n_components>>,
         PcaRecord(ComparePrepOf(df), n_components))

ResidualizationOf(df, base_channel_idx) ==
    Memo(ResidualizationMemo, <<df, base_channel_idx>>,
         Residualization(ComparePrepOf(df), base_channel_idx))

\* what a Compare Solutions run displays: results holds the four models'
\* records, then the PCA record, then the residualization record;
\* coefficients_comparison holds the four models' columns, then the
\* residualization column
CompareOut(n_components, base_channel_idx, prep, pca, res, vif) ==
    [section |-> "Compare Solutions", warning |-> FALSE,
     n_components |-> n_components,
     base_channel_idx |-> base_channel_idx,
     scaler |-> prep.scaler,
     train_size |-> prep.train_size,
     X_train |-> prep.X_train, X_test |-> prep.X_test,
     y_train |-> prep.y_train, y_test |-> prep.y_test,
     X_train_resid |-> res.X_train_resid,
     X_test_resid |-> res.X_test_resid,
     results |-> prep.results \o <<pca, res.record>>,
     coefficients_comparison |->
         Append(prep.coefficients_comparison, res.column),
     recommendation |-> Recommendation(vif)]

\* section "Compare Solutions" with the PCA slider at n_components and the
\* base channel selectbox at channels[base_channel_idx]
CompareSolutions(n_components, base_channel_idx) ==
    IF marketing_data = None
    THEN /\ out' = [section |-> "Compare Solutions", warning |-> TRUE]
         /\ prior' = None
         /\ UNCHANGED <<marketing_data, vif_scores, rng, gen_params>>
    ELSE /\ out' = CompareOut(n_components, base_channel_idx,
                              ComparePrepOf(marketing_data),
                              PcaRecordOf(marketing_data, n_components),
                              ResidualizationOf(marketing_data, base_channel_idx),
                              vif_scores)
         /\ prior' = None
         /\ UNCHANGED <<marketing_data, vif_scores, rng, gen_params>>

\* mutation of SimVif: the guard on abs(correlation) < 1 is left out; at
\* correlation 1 or -1 the division 1 / 0.0 raises and no VIF is computed
\* (shown as -1)
SimVif_Unguarded(correlation) ==
    IF 10000 - correlation * correlation = 0 THEN 0 - 1
    ELSE 1000000 \div (10000 - correlation * correlation)

\* vif = 1 / (1 - correlation**2) if abs(correlation) < 1 else float('inf')
\* (line 1318); correlation and vif in hundredths
SimVif(correlation) ==
    IF Abs(correlation) < 100
    THEN 1000000 \div (10000 - correlation * correlation)
    ELSE Inf

\* the correlation interpretation under the slider (lines 1266-1273);
\* correlation in hundredths
CorrelationLabel(correlation) ==
    IF Abs(correlation) < 30 THEN "Low correlation - Good for measurement!"
    ELSE IF Abs(correlation) < 70 THEN "Moderate correlation - Some uncertainty"
    ELSE IF Abs(correlation) < 95 THEN "High correlation - Difficult to measure!"
    ELSE "Near-perfect correlation - Measurement impossible!"

\* mutation of SimVerdict: the bands of the Detect section's Max VIF verdict
\* (above 20, above 10) in place of above 10, above 5
SimVerdict_DetectBands(vif) ==
    IF vif > 2000 THEN "Critical Multicollinearity Detected!"
    ELSE IF vif > 1000 THEN "High Multicollinearity Warning"
    ELSE "Good News - Low Multicollinearity!"

\* the message under "What This Means" (lines 1482-1549); vif in hundredths
SimVerdict(vif) ==
    IF vif > 1000 THEN "Critical Multicollinearity Detected!"
    ELSE IF vif > 500 THEN "High Multicollinearity Warning"
    ELSE "Good News - Low Multicollinearity!"

\* section "Interactive Simulator": every run reseeds the global generator and
\* draws sample_size pairs and sample_size noise terms; the VIF metric (lines
\* 1433-1445) shows the value, its delta and its caption
InteractiveSimulator(sample_size, correlation) ==
    /\ rng' = Advance(Seed(SeedValue), 2 * sample_size + sample_size)
    /\ out' = [section |-> "Interactive Simulator", sample_size |-> sample_size,
               correlation |-> correlation,
               label |-> CorrelationLabel(correlation),
               vif |-> SimVif(correlation),
               verdict |-> SimVerdict(SimVif(correlation)),
               metric |-> IF SimVif(correlation) # Inf
                          THEN <<"%.2f", SimVif(correlation)>> ELSE <<"infinity sign">>,
               delta |-> IF SimVif(correlation) > 500 THEN "High" ELSE "Good",
               caption |-> IF SimVif(correlation) > 1000 THEN "Severe issue!"
                           ELSE IF SimVif(correlation) > 500 THEN "Concerning"
                           ELSE "Acceptable"]
    /\ prior' = None
    /\ UNCHANGED <<marketing_data, vif_scores, gen_params>>

\* section "Real-World Examples": static text only
RealWorldExamples ==
    /\ out' = [section |-> "Real-World Examples"]
    /\ prior' = None
    /\ UNCHANGED <<marketing_data, vif_scores, rng, gen_params>>

Next ==
    \/ Introduction
    \/ \E p \in SessionParams : GenerateClick(p)
    \/ \E p \in RaisingParams, k \in 1..Len(GenerateSteps) : GenerateRaises(p, k)
    \/ GenerateView
    \/ Detect
    \/ Visualize
    \/ \E n \in SessionSims : RunBootstrap(n)
    \/ \E k \in {1, 3, NCh}, b \in 1..NCh : CompareSolutions(k, b)
    \/ \E sample_size \in {20, 100, 500},
          correlation \in {0 - 100, 0 - 95, 0, 80, 95, 100} :
            InteractiveSimulator(sample_size, correlation)
    \/ RealWorldExamples

Spec == Init /\ [][Next]_vars

\* the Interactive Simulator alone, at every value of the correlation slider
\* (-1.0 to 1.0 in steps of 0.05, line 1254)
SpecSimulator ==
    Init /\ [][\E sample_size \in {20, 100, 500},
                  correlation \in {c \in (0 - 100)..100 : c % 5 = 0} :
                    InteractiveSimulator(sample_size, correlation)]_vars

(***************************************************************************)
(* The two pure rules of the script that the session above exercises only  *)
(* at the values its datasets happen to give: get_stability_indicator      *)
(* (lines 761-767) over the CV% values, and the split (lines 876-879) over *)
(* every dataset size the n_weeks slider allows.  Each has a specification *)
(* whose initial states draw the input and whose action applies the rule.  *)
(***************************************************************************)

\* largest CV% probed, in tenths of a percent
CvMax == 1200

\* get_stability_indicator(cv), cv in tenths of a percent
get_stability_indicator(cv) ==
    IF cv < 200 THEN "Stable"
    ELSE IF cv < 500 THEN "Moderate" ELSE "Unstable"

Idle ==
    /\ marketing_data = None
    /\ vif_scores = None
    /\ rng = Seed(SeedValue)
    /\ gen_params = None
    /\ prior = None

InitStability ==
    /\ Idle
    /\ out \in [section : {"stability"}, cv : 0..CvMax, applied : {FALSE}]

\* coef_stats['CV%'].apply(get_stability_indicator) on one value
ApplyStability ==
    /\ out.section = "stability"
    /\ ~out.applied
    /\ out' = [section |-> "stability", cv |-> out.cv, applied |-> TRUE,
               Stability |-> get_stability_indicator(out.cv)]
    /\ UNCHANGED <<marketing_data, vif_scores, rng, gen_params, prior>>

SpecStability == InitStability /\ [][ApplyStability]_vars

\* distance between the n_weeks values the generator is probed at
WeeksStep == 52

InitGenerate ==
    /\ Idle
    /\ out \in [section : {"generate"}, applied : {FALSE},
                params : [n_weeks : {n \in MinWeeks..MaxWeeks :
                                        (n - MinWeeks) % WeeksStep = 0},
                          base_sales : {500},
                          correlation_level : Scenarios,
                          noise_level : {15},
                          seasonality : BOOLEAN,
                          trend : BOOLEAN,
                          outliers : BOOLEAN]]

\* the handler on the widget values out.params: the sampled spend (line 241),
\* the spend clamped (line 242) and shaped (lines 249-257), the DataFrame with
\* the outcome (lines 265-267), the DataFrame with the noise (line 270), before
\* the outlier step, and after it (lines 272-277), and the DataFrame that is
\* stored (line 284)
ApplyGenerate ==
    /\ out.section = "generate"
    /\ ~out.applied
    /\ out' = [section |-> "generate", applied |-> TRUE, params |-> out.params,
               sampled |-> GenerateLocal(GenerateSeedState(rng), out.params, 2),
               clamped |-> GenerateLocal(GenerateSeedState(rng), out.params, 3),
               shaped |-> GenerateLocal(GenerateSeedState(rng), out.params, 4),
               outcome |-> GenerateLocal(GenerateSeedState(rng), out.params, 5),
               unscaled |-> GenerateLocal(GenerateSeedState(rng), out.params, 6),
               scaled |-> GenerateLocal(GenerateSeedState(rng), out.params, 7),
               df |-> GenerateData(GenerateSeedState(rng), out.params)]
    /\ UNCHANGED <<marketing_data, vif_scores, rng, gen_params, prior>>

SpecGenerate == InitGenerate /\ [][ApplyGenerate]_vars

RECURSIVE problem_pairs_AtLeast(_, _, _)
\* mutation of problem_pairs: the test is abs(corr_matrix.iloc[i, j]) >= 0.8
problem_pairs_AtLeast(corr_matrix, i, j) ==
    IF i > NCh THEN <<>>
    ELSE IF j > NCh THEN problem_pairs_AtLeast(corr_matrix, i + 1, i + 2)
    ELSE (IF Abs(corr_matrix[i][j]) >= 800
          THEN <<[Channel1 |-> channels[i], Channel2 |-> channels[j],
                  Correlation |-> corr_matrix[i][j]]>>
          ELSE <<>>)
         \o problem_pairs_AtLeast(corr_matrix, i, j + 1)

RECURSIVE problem_pairs(_, _, _)
\* the loops of lines 447-455 from position (i, j) on, one-based: the entries
\* appended to problem_pairs; correlations in permille
problem_pairs(corr_matrix, i, j) ==
    IF i > NCh THEN <<>>
    ELSE IF j > NCh THEN problem_pairs(corr_matrix, i + 1, i + 2)
    ELSE (IF Abs(corr_matrix[i][j]) > 800
          THEN <<[Channel1 |-> channels[i], Channel2 |-> channels[j],
                  Correlation |-> corr_matrix[i][j]]>>
          ELSE <<>>)
         \o problem_pairs(corr_matrix, i, j + 1)

\* correlations probed lie within ProbeSpan permille of 0.8 and of -0.8
ProbeSpan == 1

\* corr_matrix = df[channels].corr() (line 411) is symmetric with a unit
\* diagonal.  The matrices probed correlate two disjoint pairs of channels, a
\* with v and b with w, and nothing else.
InitPairs ==
    /\ Idle
    /\ \E a, b \in {q \in (1..NCh) \X (1..NCh) : q[1] < q[2]} :
       \E v, w \in {0} \cup {sg * (800 + d) : sg \in {0 - 1, 1},
                                              d \in (0 - ProbeSpan)..ProbeSpan} :
        /\ {a[1], a[2]} \cap {b[1], b[2]} = {}
        /\ out = [section |-> "pairs", applied |-> FALSE,
                  corr_matrix |->
                      [i \in 1..NCh |-> [j \in 1..NCh |->
                          IF i = j THEN 1000
                          ELSE IF {i, j} = {a[1], a[2]} THEN v
                          ELSE IF {i, j} = {b[1], b[2]} THEN w
                          ELSE 0]]]

\* the loops of lines 447-455 on out.corr_matrix
ApplyPairs ==
    /\ out.section = "pairs"
    /\ ~out.applied
    /\ out' = [section |-> "pairs", applied |-> TRUE,
               corr_matrix |-> out.corr_matrix,
               problem_pairs |-> problem_pairs(out.corr_matrix, 1, 2)]
    /\ UNCHANGED <<marketing_data, vif_scores, rng, gen_params, prior>>

SpecPairs == InitPairs /\ [][ApplyPairs]_vars

\* The VIF vectors probed give the first a channels the VIF x and the others
\* the VIF y, each 1.5 or within ProbeSpan hundredths of 5, 10 or 20.
InitVerdict ==
    /\ Idle
    /\ \E a \in 0..NCh :
       \E x, y \in {150} \cup {t + d : t \in {500, 1000, 2000},
                                      d \in (0 - ProbeSpan)..ProbeSpan} :
        out = [section |-> "verdict", applied |-> FALSE,
               VIF |-> [i \in 1..NCh |-> IF i <= a THEN x ELSE y]]

\* the Status column, the summary metrics and the message (lines 484-607) on
\* the VIF values out.VIF
ApplyVerdict ==
    /\ out.section = "verdict"
    /\ ~out.applied
    /\ out' = DetectOut(VifRows(out.VIF))
    /\ UNCHANGED <<marketing_data, vif_scores, rng, gen_params, prior>>

SpecVerdict == InitVerdict /\ [][ApplyVerdict]_vars

\* high_cv_channels (line 784): the channels whose CV% is above 50; cv in
\* tenths of a percent
high_cv_channels(cv) ==
    SelectSeq(channels, LAMBDA c : \E i \in 1..NCh : channels[i] = c /\ cv[i] > 500)

\* moderate_cv_channels (line 785): CV% above 20 and at most 50
moderate_cv_channels(cv) ==
    SelectSeq(channels, LAMBDA c : \E i \in 1..NCh :
                                      channels[i] = c /\ cv[i] > 200 /\ cv[i] <= 500)

\* The CV% vectors probed give the first a channels the value x and the others
\* the value y, each 0 or within ProbeSpan tenths of a percent of 20 or 50.
InitMessages ==
    /\ Idle
    /\ \E a \in 0..NCh :
       \E x, y \in {0} \cup {t + d : t \in {200, 500},
                                    d \in (0 - ProbeSpan)..ProbeSpan} :
        out = [section |-> "messages", applied |-> FALSE,
               cv |-> [i \in 1..NCh |-> IF i <= a THEN x ELSE y]]

\* the Stability column (line 770) and the three messages (lines 784-818) on
\* the CV% values out.cv
ApplyMessages ==
    /\ out.section = "messages"
    /\ ~out.applied
    /\ out' = [section |-> "messages", applied |-> TRUE, cv |-> out.cv,
               Stability |-> Tuple([i \in 1..NCh |-> get_stability_indicator(out.cv[i])]),
               error |-> high_cv_channels(out.cv),
               warning |-> moderate_cv_channels(out.cv),
               success |-> (/\ high_cv_channels(out.cv) = <<>>
                            /\ moderate_cv_channels(out.cv) = <<>>)]
    /\ UNCHANGED <<marketing_data, vif_scores, rng, gen_params, prior>>

SpecMessages == InitMessages /\ [][ApplyMessages]_vars

\* mutation of coef_stats: CV% is 100 * std / abs(mean) without the test on the
\* mean; NumPy's division by a zero mean gives inf
coef_stats_Unguarded(coefs) ==
    LET n    == Len(coefs)
        c4   == Tuple([k \in 1..n |-> coefs[k] * 100])
        avg  == (SumSeq(coefs, n) * 100) \div n
        sd   == ISqrt(Cross(c4, avg, 1, c4, avg, 1, n) \div n)
        cv   == IF avg # 0 THEN (1000 * sd) \div Abs(avg) ELSE Inf
    IN  [Mean |-> avg, StdDev |-> sd, CV |-> cv,
         Stability |-> get_stability_indicator(cv)]

\* one row of coef_stats (lines 752-770) for the coefficient list coefs of a
\* channel, coefficients in hundredths: np.mean and np.std in ten-thousandths,
\* CV% in tenths of a percent, and the stability label
coef_stats(coefs) ==
    LET n    == Len(coefs)
        c4   == Tuple([k \in 1..n |-> coefs[k] * 100])
        avg  == (SumSeq(coefs, n) * 100) \div n
        sd   == ISqrt(Cross(c4, avg, 1, c4, avg, 1, n) \div n)
        cv   == IF avg # 0 THEN (1000 * sd) \div Abs(avg) ELSE 0
    IN  [Mean |-> avg, StdDev |-> sd, CV |-> cv,
         Stability |-> get_stability_indicator(cv)]

\* coefficients probed lie in -CoefSpan..CoefSpan hundredths
CoefSpan == 5

\* a channel's coefficient list after a run of MinSim passes: a passes gave
\* the coefficient x, the others y
InitCv ==
    /\ Idle
    /\ \E x, y \in (0 - CoefSpan)..CoefSpan : \E a \in 0..MinSim :
        out = [section |-> "cv", applied |-> FALSE,
               coefficients |-> [k \in 1..MinSim |-> IF k <= a THEN x ELSE y]]

\* the row of coef_stats for out.coefficients
ApplyCv ==
    /\ out.section = "cv"
    /\ ~out.applied
    /\ out' = [section |-> "cv", applied |-> TRUE,
               coefficients |-> out.coefficients,
               stats |-> coef_stats(out.coefficients)]
    /\ UNCHANGED <<marketing_data, vif_scores, rng, gen_params, prior>>

SpecCv == InitCv /\ [][ApplyCv]_vars

InitSplit ==
    /\ Idle
    /\ out \in [section : {"split"}, n : MinWeeks..MaxWeeks, applied : {FALSE}]

\* the split of a dataset of out.n rows, the rows named by their positions
ApplySplit ==
    /\ out.section = "split"
    /\ ~out.applied
    /\ LET rows  == Tuple([i \in 1..out.n |-> i])
           parts == SplitRows(rows, TrainSize(out.n))
       IN  out' = [section |-> "split", n |-> out.n, applied |-> TRUE,
                   train_size |-> TrainSize(out.n),
                   train |-> parts.train, test |-> parts.test]
    /\ UNCHANGED <<marketing_data, vif_scores, rng, gen_params, prior>>

SpecSplit == InitSplit /\ [][ApplySplit]_vars


(***************************************************************************)
(* Properties.                                                             *)
(***************************************************************************)

\* the run o is a Compare Solutions run on a stored dataset
IsCompareRun(o) == o.section = "Compare Solutions" /\ ~o.warning

\* the run o is a bootstrap run
IsBootstrapRun(o) == o.section = "Visualize the Problem" /\ o.ran

\* the run o is a Generate click
IsGenerateClick(o) == o.section = "Generate Marketing Data" /\ o.clicked

\* X with the first channel of row r raised by one hundred units
Perturb(X, r) == [X EXCEPT ![r][1] = @ + 100000]

\* the comparison of X2 has the scaler and the scaled training rows of run o
SameTraining(X2, o) ==
    /\ CompareScaler(X2) = o.scaler
    /\ SplitRows(ScalerTransform(CompareScaler(X2), X2), o.train_size).train
           = o.X_train

NoLeakage(X, o) ==
    \A r \in {o.train_size + 1, Len(X)} : SameTraining(Perturb(X, r), o)

\* C1: the scaler's statistics and the scaled training rows of a Compare
\* Solutions run do not depend on the test split: raising a value in a test
\* row (the first or the last one) would leave both as the run computed them.
C1_NoLeakage ==
    IsCompareRun(out) => NoLeakage(Tuple(ChannelValues(marketing_data)), out)

\* C2: the VIF table kept in the session is the VIF table of the dataset that
\* is stored now.
C2_VifOfStoredData ==
    vif_scores # None => vif_scores = VifTableOf(marketing_data)

\* C3: a bootstrap run that follows a bootstrap run on the same stored dataset
\* with the same iteration count draws the same resampled row indices and
\* gives the same coefficient lists.
C3_BootstrapDeterministic ==
    [][(/\ IsBootstrapRun(out)
        /\ IsBootstrapRun(out')
        /\ out'.n_simulations = out.n_simulations
        /\ marketing_data' = marketing_data)
       => (/\ out'.sample_idx = out.sample_idx
           /\ out'.coefficients = out.coefficients)]_vars

\* C4: a Generate click with the parameters of the click that made the stored
\* dataset stores the same dataset again, whatever the generator state the
\* runs in between left.
C4_GenerateDeterministic ==
    [][(IsGenerateClick(out') /\ gen_params = <<out'.params>>)
       => marketing_data' = marketing_data]_vars

\* a Generate click repeated the stored parameters and found the generator
\* in a state other than the seeded one
C4_Witness ==
    /\ prior # None
    /\ prior[1].repeat
    /\ ~prior[1].seeded
    /\ marketing_data # None

\* C5: only a Generate click changes the stored dataset; every other run
\* leaves it as it was.
C5_OnlyGenerateWrites ==
    [][marketing_data' # marketing_data => IsGenerateClick(out')]_vars

\* a bootstrap run has been made and the stored dataset is still the one its
\* parameters generate
C5_Witness ==
    /\ IsBootstrapRun(out)
    /\ marketing_data # None
    /\ marketing_data = GenerateDataOf(Seed(SeedValue), gen_params[1])

\* the four severity bands, VIF in hundredths
SeverityBand(v) ==
    IF v < 500 THEN "low"
    ELSE IF v < 1000 THEN "moderate"
    ELSE IF v < 2000 THEN "high" ELSE "severe"

\* C6: the per-channel label tells the four severity bands apart: two
\* channels of a VIF table carry the same label exactly when their VIFs lie in
\* the same band.
C6_FourSeverityLabels ==
    vif_scores # None =>
        \A i, j \in 1..NCh :
            (vif_scores[i].Status = vif_scores[j].Status)
                <=> (SeverityBand(vif_scores[i].VIF) = SeverityBand(vif_scores[j].VIF))

\* the stability rule: stable below 20, moderate from 20 to 50 inclusive,
\* unstable above 50; cv in tenths of a percent
StabilityRule(cv) ==
    IF cv < 200 THEN "Stable"
    ELSE IF cv <= 500 THEN "Moderate" ELSE "Unstable"

\* C7: the label get_stability_indicator gives a CV% is the one of the
\* stability rule.
C7_StabilityLabel ==
    (out.section = "stability" /\ out.applied)
        => out.Stability = StabilityRule(out.cv)

\* C8: the training rows are the first floor(0.8 n) rows in order, the test
\* rows are the rest in order, no row is in both, and each part has at least
\* NCh + 1 rows, for every n from MinWeeks to MaxWeeks.
C8_Split ==
    (out.section = "split" /\ out.applied) =>
        /\ 10 * Len(out.train) <= 8 * out.n
        /\ 8 * out.n < 10 * (Len(out.train) + 1)
        /\ out.train_size = Len(out.train)
        /\ \A i \in 1..Len(out.train) : out.train[i] = i
        /\ \A i \in 1..Len(out.test) : out.test[i] = Len(out.train) + i
        /\ Len(out.train) + Len(out.test) = out.n
        /\ {out.train[i] : i \in 1..Len(out.train)}
               \cap {out.test[i] : i \in 1..Len(out.test)} = {}
        /\ Len(out.train) >= NCh + 1
        /\ Len(out.test) >= NCh + 1

\* the smallest dataset has been split: 41 training rows and 11 test rows
C8_Witness ==
    /\ out.section = "split"
    /\ out.applied
    /\ out.n = MinWeeks
    /\ Len(out.train) = 41
    /\ Len(out.test) = 11

\* the regression variants in the order of the comparison
MethodOrder ==
    <<"OLS (No Regularization)", "Ridge (L2)", "Lasso (L1)", "Elastic Net",
      "PCA", "Residualized">>

\* the coefficient comparison of run o has a column of the given method
HasColumn(o, method) ==
    \E c \in 1..Len(o.coefficients_comparison) :
        o.coefficients_comparison[c].Method = method

\* C9: a Compare Solutions run yields six records in the order OLS, Ridge,
\* Lasso, Elastic Net, PCA, residualization, each with a train score and a test
\* score and each with its coefficient vector in the coefficient comparison.
C9_SixRecords ==
    IsCompareRun(out) =>
        /\ Len(out.results) = Len(MethodOrder)
        /\ \A k \in 1..Len(MethodOrder) :
            /\ out.results[k].Method = MethodOrder[k]
            /\ {"Train", "Test"} \subseteq DOMAIN out.results[k]
            /\ HasColumn(out, MethodOrder[k])

\* column i of A less the prediction of the regression rm from column b of A
LessPrediction(A, i, b, rm) ==
    Tuple([r \in 1..Len(A) |-> A[r][i] - ResidualPredict(rm, A[r][b])])

\* column i of the design A after the one-step orthogonalization against the
\* base column b, the regression fitted on the rows F
OneStep(F, A, b, i) ==
    IF i = b THEN Col(A, i)
    ELSE LessPrediction(A, i, b, ResidualModel(F, b, i))

BaseOnly(o) ==
    \A i \in 1..NCh :
        /\ Col(o.X_train_resid, i)
               = OneStep(o.X_train, o.X_train, o.base_channel_idx, i)
        /\ Col(o.X_test_resid, i)
               = OneStep(o.X_train, o.X_test, o.base_channel_idx, i)

\* C10: in the residualized designs of a Compare Solutions run the base column
\* is the scaled base column, and every other column is the scaled column less
\* the prediction of its regression on the scaled base column alone, fitted on
\* the training rows and applied to the training and to the test rows.
C10_BaseOnlyResidualization == IsCompareRun(out) => BaseOnly(out)

\* a run residualized against the third channel: channels before and after the
\* base changed in both designs, the base column did not
C10_Witness ==
    /\ IsCompareRun(out)
    /\ out.base_channel_idx = 3
    /\ Col(out.X_train_resid, 3) = Col(out.X_train, 3)
    /\ Col(out.X_train_resid, 2) # Col(out.X_train, 2)
    /\ Col(out.X_test_resid, 4) # Col(out.X_test, 4)

\* C11: a bootstrap run of k passes holds k resamples, each of exactly
\* len(dataset) row indices, every index a row position of the dataset, and
\* for each of the six channels a list of exactly k coefficients.
C11_BootstrapShape ==
    IsBootstrapRun(out) =>
        /\ Len(out.sample_idx) = out.n_simulations
        /\ \A it \in 1..Len(out.sample_idx) :
            /\ Len(out.sample_idx[it]) = Len(marketing_data)
            /\ \A k \in 1..Len(out.sample_idx[it]) :
                out.sample_idx[it][k] \in 0..(Len(marketing_data) - 1)
        /\ Len(out.coefficients) = NCh
        /\ \A j \in 1..NCh : Len(out.coefficients[j]) = out.n_simulations

\* a run of MinSim + 1 passes whose first resample drew some row twice (with
\* replacement) and whose last channel holds MinSim + 1 coefficients
C11_Witness ==
    /\ IsBootstrapRun(out)
    /\ out.n_simulations = MinSim + 1
    /\ Len(out.coefficients[NCh]) = MinSim + 1
    /\ \E a, b \in 1..Len(out.sample_idx[1]) :
        a # b /\ out.sample_idx[1][a] = out.sample_idx[1][b]

\* the run o is a Generate click whose handler raised
IsRaisedClick(o) == IsGenerateClick(o) /\ "raised" \in DOMAIN o

\* C12: a Generate click whose handler raises at any step leaves the stored
\* dataset (or None) in place, and whenever the stored dataset changes it
\* becomes the complete dataset of a click that ran to its end.
C12_GenerateAtomic ==
    [][/\ IsRaisedClick(out') => marketing_data' = marketing_data
       /\ marketing_data' # marketing_data =>
            /\ IsGenerateClick(out')
            /\ ~IsRaisedClick(out')
            /\ marketing_data' = GenerateDataOf(Seed(SeedValue), out'.params)]_vars

\* a click raised in the rounding step, after every value had been computed,
\* while a dataset of other parameters was stored, and that dataset is still there
C12_Witness ==
    /\ IsRaisedClick(out)
    /\ out.raised = "rounding"
    /\ marketing_data # None
    /\ gen_params # <<out.params>>
    /\ marketing_data = GenerateDataOf(Seed(SeedValue), gen_params[1])

\* the handler has been applied to the widget values of o
IsGenerated(o) == o.section = "generate" /\ o.applied

\* C13: every channel value of the dataset the handler stores is >= 0, for
\* every scenario, with seasonality, trend and outliers on or off, over the
\* range of n_weeks.
C13_NonNegativeSpend ==
    IsGenerated(out) =>
        \A r \in 1..Len(out.df) : \A j \in 1..NCh : out.df[r][channels[j]] >= 0

\* a dataset in which a sampled value was negative and is stored as zero
C13_Witness ==
    /\ IsGenerated(out)
    /\ \E r \in 1..Len(out.df) : \E j \in 1..NCh :
        out.sampled[r][channels[j]] < 0 /\ out.df[r][channels[j]] = 0

\* C14: the outlier step multiplies by 2.5, once, every column of the rows 46,
\* 98 and 150 that lie below n_weeks when outliers is on, and changes no other
\* value; with outliers off it changes nothing.  The stored dataset is the
\* rounding of the result.
C14_OutlierRows ==
    IsGenerated(out) =>
        \A r \in 1..Len(out.df) : \A col \in Columns :
            /\ out.scaled[r][col] =
                   IF out.params.outliers /\ (r - 1) \in {46, 98, 150}
                   THEN (out.unscaled[r][col] * 25) \div 10
                   ELSE out.unscaled[r][col]
            /\ out.df[r][col] = IF col = "Sales" THEN Round0(out.scaled[r][col])
                                ELSE Round2(out.scaled[r][col])

\* a dataset with outliers whose length lies between the second and the third
\* designated row: rows 46 and 98 are scaled, their neighbours are not
C14_Witness ==
    /\ IsGenerated(out)
    /\ out.params.outliers
    /\ Len(out.df) > 98
    /\ Len(out.df) <= 150
    /\ out.scaled[47].Sales # out.unscaled[47].Sales
    /\ out.scaled[99].Sales # out.unscaled[99].Sales
    /\ out.scaled[48] = out.unscaled[48]
    /\ out.scaled[98] = out.unscaled[98]

\* C15: the dataset the Detect, Visualize and Compare Solutions sections read
\* (df = st.session_state.marketing_data) holds the generated values as they
\* are before the rounding step.
C15_UnroundedConsumed ==
    marketing_data # None =>
        marketing_data = GenerateLocal(Seed(SeedValue), gen_params[1], 7)

\* C16: in the Interactive Simulator a correlation of exactly 1 or -1 gives
\* the VIF +infinity, shown as the infinity sign and put in the highest class;
\* any other correlation gives the finite VIF 1 / (1 - correlation^2), shown
\* as a number.
C16_SimulatorVif ==
    out.section = "Interactive Simulator" =>
        IF out.correlation \in {0 - 100, 100}
        THEN /\ out.vif = Inf
             /\ out.metric = <<"infinity sign">>
             /\ out.delta = "High"
             /\ out.caption = "Severe issue!"
        ELSE /\ out.vif * (10000 - out.correlation * out.correlation) <= 1000000
             /\ 1000000 < (out.vif + 1) * (10000 - out.correlation * out.correlation)
             /\ out.metric = <<"%.2f", out.vif>>

\* the simulator has been rendered at correlation -1, and shows the infinity sign
C16_Witness ==
    /\ out.section = "Interactive Simulator"
    /\ out.correlation = 0 - 100
    /\ out.metric = <<"infinity sign">>

\* entry e of problem_pairs names the channels i and j
Names(e, i, j) == {e.Channel1, e.Channel2} = {channels[i], channels[j]}

\* C19: a pair of distinct channels is in problem_pairs exactly when the
\* absolute value of its correlation is above 0.8; no pair is listed twice and
\* no channel is paired with itself.
C19_ProblemPairs ==
    (out.section = "pairs" /\ out.applied) =>
        /\ \A i, j \in 1..NCh : i < j =>
            ((\E k \in 1..Len(out.problem_pairs) : Names(out.problem_pairs[k], i, j))
                <=> Abs(out.corr_matrix[i][j]) > 800)
        /\ \A k \in 1..Len(out.problem_pairs) :
            /\ out.problem_pairs[k].Channel1 # out.problem_pairs[k].Channel2
            /\ \A l \in 1..Len(out.problem_pairs) : l # k =>
                {out.problem_pairs[k].Channel1, out.problem_pairs[k].Channel2}
                    # {out.problem_pairs[l].Channel1, out.problem_pairs[l].Channel2}

\* a matrix with one pair at exactly 0.8 and another at -0.801: only the
\* second is listed
C19_Witness ==
    /\ out.section = "pairs"
    /\ out.applied
    /\ out.corr_matrix[1][2] = 800
    /\ out.corr_matrix[3][6] = 0 - 801
    /\ Len(out.problem_pairs) = 1
    /\ Names(out.problem_pairs[1], 3, 6)

\* C20: the mean of a coefficient list is zero exactly when its sum is; then
\* CV% is 0 and the label is Stable; otherwise CV% is 100 * std / |mean|
\* (to the tenth of a percent the model keeps).
C20_CvOfZeroMean ==
    (out.section = "cv" /\ out.applied) =>
        /\ (out.stats.Mean = 0) <=> (SumSeq(out.coefficients, MinSim) = 0)
        /\ IF out.stats.Mean = 0
           THEN out.stats.CV = 0 /\ out.stats.Stability = "Stable"
           ELSE /\ out.stats.CV * Abs(out.stats.Mean) <= 1000 * out.stats.StdDev
                /\ 1000 * out.stats.StdDev
                       < (out.stats.CV + 1) * Abs(out.stats.Mean)

\* a list whose coefficients differ and average to exactly zero
C20_Witness ==
    /\ out.section = "cv"
    /\ out.applied
    /\ out.stats.Mean = 0
    /\ out.stats.StdDev > 0
    /\ out.stats.CV = 0
    /\ out.stats.Stability = "Stable"

\* C21: every one of the six records of a Compare Solutions run reports as
\* its gap its train score less its test score, no method is left out, and
\* the test score of the least squares fit is the R2 of its predictions on
\* the test rows as it comes out, also when it is below zero.
C21_GapAndUnclampedTest ==
    IsCompareRun(out) =>
        /\ Len(out.results) = Len(MethodOrder)
        /\ \A k \in 1..Len(out.results) :
            /\ out.results[k].Method = MethodOrder[k]
            /\ out.results[k].Gap = out.results[k].Train - out.results[k].Test
        /\ LET y    == out.y_test
               pred == Predict(FitModel(out.X_train, out.y_train, NCh, 0, 0),
                               out.X_test)
               res  == Tuple([r \in 1..Len(y) |-> y[r] - pred[r]])
           IN  out.results[1].Test
                   = 1000 - Cross(res, 0, 10, res, 0, 10, Len(y))
                            \div Max(1, Cross(y, MeanOf(y), 10, y, MeanOf(y), 10,
                                              Len(y)) \div 1000)

\* a run in which a method scores below zero on the test rows: the score is
\* reported and the gap exceeds the train score
C21_Witness ==
    /\ IsCompareRun(out)
    /\ \E k \in 1..Len(out.results) :
        out.results[k].Test < 0 /\ out.results[k].Gap > out.results[k].Train

\* C22: the CSV offered for download has the channel names and then the
\* outcome name as its columns, nothing else, one line per week of the stored
\* dataset, spend values to 2 decimals and the outcome to 0 decimals.
C22_CsvColumns ==
    (out.section = "Generate Marketing Data" /\ "csv" \in DOMAIN out) =>
        /\ out.csv.header = channels \o <<"Sales">>
        /\ Len(out.csv.rows) = Len(marketing_data)
        /\ \A i \in 1..Len(out.csv.rows) :
            /\ Len(out.csv.rows[i]) = NCh + 1
            /\ \A j \in 1..NCh : out.csv.rows[i][j] % 10 = 0
            /\ out.csv.rows[i][NCh + 1] % 1000 = 0

\* C23: the stored dataset, and the handler's data after every step, has
\* exactly n_weeks rows, for every probed n_weeks from MinWeeks to MaxWeeks and
\* every combination of seasonality, trend and outliers.
C23_RowCount ==
    IsGenerated(out) =>
        /\ out.params.n_weeks \in MinWeeks..MaxWeeks
        /\ Len(out.df) = out.params.n_weeks
        /\ \A part \in {out.sampled, out.clamped, out.shaped, out.outcome,
                        out.unscaled, out.scaled} :
            Len(part) = out.params.n_weeks

\* the longest dataset, with the three patterns on, has MaxWeeks rows
C23_Witness ==
    /\ IsGenerated(out)
    /\ out.params.n_weeks = MaxWeeks
    /\ out.params.seasonality
    /\ out.params.trend
    /\ out.params.outliers
    /\ Len(out.df) = MaxWeeks

\* C25: the steps of the handler act in the order sample, clamp, seasonality,
\* trend, outcome, noise, outliers, round: the clamped spend is the sampled
\* spend or zero; the shaped spend is the clamped spend times the seasonal
\* factor, then times the trend factor; Sales is the base sales plus the
\* contributions of the shaped spend; the noise is added once and is the noise
\* of the same click without seasonality and trend; at rows 46, 98 and 150
\* Sales with its base and noise terms is multiplied by 2.5; the stored values
\* are the rounded ones.
C25_StepOrder ==
    IsGenerated(out) =>
        \A r \in 1..Len(out.df) :
            /\ \A j \in 1..NCh :
                /\ out.clamped[r][channels[j]] = Max(out.sampled[r][channels[j]], 0)
                /\ out.shaped[r][channels[j]] =
                       LET seas == IF out.params.seasonality
                                   THEN (out.clamped[r][channels[j]]
                                         * seasonal_pattern(r - 1)) \div 1000
                                   ELSE out.clamped[r][channels[j]]
                       IN  IF out.params.trend THEN (seas * growth(r - 1)) \div 1000
                           ELSE seas
                /\ out.outcome[r][channels[j]] = out.shaped[r][channels[j]]
                /\ out.unscaled[r][channels[j]] = out.shaped[r][channels[j]]
                /\ out.df[r][channels[j]] = Round2(out.scaled[r][channels[j]])
            /\ out.outcome[r].Sales =
                   out.params.base_sales * 1000
                   + SumSeq([j \in 1..NCh |->
                                (out.shaped[r][channels[j]] * true_coefficients[j])
                                \div 10], NCh)
            /\ out.unscaled[r].Sales - out.outcome[r].Sales =
                   LET unshaped == [out.params EXCEPT !.seasonality = FALSE,
                                                       !.trend = FALSE]
                   IN  LocalSales(Seed(SeedValue), unshaped, r - 1, 6)
                       - LocalSales(Seed(SeedValue), unshaped, r - 1, 5)
            /\ out.scaled[r].Sales =
                   IF out.params.outliers /\ (r - 1) \in {46, 98, 150}
                   THEN (out.unscaled[r].Sales * 25) \div 10
                   ELSE out.unscaled[r].Sales
            /\ out.df[r].Sales = Round0(out.scaled[r].Sales)

\* a click with the three patterns on: week 46 has shaped spend, noise in its
\* Sales, and Sales multiplied at the outlier step
C25_Witness ==
    /\ IsGenerated(out)
    /\ out.params.seasonality
    /\ out.params.trend
    /\ out.params.outliers
    /\ out.shaped[47].TV # out.clamped[47].TV
    /\ out.unscaled[47].Sales # out.outcome[47].Sales
    /\ out.scaled[47].Sales # out.unscaled[47].Sales

\* C26: while no dataset is stored a Detect, Visualize or Compare Solutions
\* run shows the warning, computes nothing and changes nothing; a stored VIF
\* table comes with a stored dataset; a VIF table is first stored by a Detect
\* run on a dataset, and a Compare Solutions run shows a recommendation only
\* when a VIF table is stored.
C26_GuardedSections ==
    [][/\ (/\ marketing_data = None
           /\ out'.section \in {"Detect Multicollinearity", "Visualize the Problem",
                                "Compare Solutions"})
          => /\ out'.warning
             /\ DOMAIN out' \subseteq {"section", "warning", "ran"}
             /\ "ran" \in DOMAIN out' => ~out'.ran
             /\ UNCHANGED <<marketing_data, vif_scores, rng>>
       /\ vif_scores' # None => marketing_data' # None
       /\ (vif_scores = None /\ vif_scores' # None)
          => (out'.section = "Detect Multicollinearity" /\ ~out'.warning)
       /\ (IsCompareRun(out') /\ out'.recommendation # "none")
          => vif_scores # None]_vars

\* the Compare Solutions section has been opened with no dataset stored and
\* shows the warning
C26_Witness ==
    /\ out.section = "Compare Solutions"
    /\ out.warning
    /\ marketing_data = None
    /\ vif_scores = None

\* C27: a stored dataset is never reset to None and a stored VIF table is
\* never reset to None; the VIF table changes only in a Detect run on a
\* dataset; a bootstrap run and a Compare Solutions run leave the session
\* state as it was.
C27_MonotoneSession ==
    [][/\ marketing_data # None => marketing_data' # None
       /\ vif_scores # None => vif_scores' # None
       /\ vif_scores' # vif_scores
          => (/\ out'.section = "Detect Multicollinearity"
              /\ ~out'.warning
              /\ marketing_data # None)
       /\ (IsBootstrapRun(out') \/ IsCompareRun(out'))
          => UNCHANGED <<marketing_data, vif_scores>>]_vars

\* a Generate click replaced the dataset while a VIF table was stored, and the
\* table is still there
C27_Witness ==
    /\ IsGenerateClick(out)
    /\ ~IsRaisedClick(out)
    /\ prior # None
    /\ ~prior[1].repeat
    /\ vif_scores # None

\* C28: the summary of a Detect run agrees with the worst per-channel status:
\* the Low verdict and the "looks good" message are shown exactly when every
\* channel is Good, the Moderate ones exactly when the worst status is
\* Warning, a High or Severe verdict and the "serious issues" message exactly
\* when some channel is Critical; the "Channels > VIF 5" count is the number
\* of channels that are not Good, the "Channels > VIF 10" count the number of
\* Critical ones.
C28_SummaryAgreesWithStatus ==
    (out.section = "Detect Multicollinearity" /\ ~out.warning) =>
        LET st == {out.vif_df[i].Status : i \in 1..NCh}
        IN  /\ (out.verdict = "Low") <=> (st = {"Good"})
            /\ (out.verdict = "Moderate")
                   <=> ("Warning" \in st /\ "Critical" \notin st)
            /\ (out.verdict \in {"High", "Severe"}) <=> ("Critical" \in st)
            /\ (out.means = "Your data looks good") <=> (st = {"Good"})
            /\ (out.means = "serious multicollinearity issues")
                   <=> ("Critical" \in st)
            /\ out.channels_warning
                   = Cardinality({i \in 1..NCh : out.vif_df[i].Status # "Good"})
            /\ out.channels_critical
                   = Cardinality({i \in 1..NCh : out.vif_df[i].Status = "Critical"})

\* C29: after a bootstrap run a channel is listed in the "unstable
\* coefficients" error exactly when its label is Unstable, in the "moderate
\* variability" warning exactly when its label is Moderate, and the
\* "Excellent Stability" message is shown exactly when every label is Stable.
C29_MessagesAgreeWithLabels ==
    (out.section = "messages" /\ out.applied) =>
        /\ \A i \in 1..NCh :
              /\ (\E k \in 1..Len(out.error) : out.error[k] = channels[i])
                     <=> (out.Stability[i] = "Unstable")
              /\ (\E k \in 1..Len(out.warning) : out.warning[k] = channels[i])
                     <=> (out.Stability[i] = "Moderate")
        /\ out.success <=> (\A i \in 1..NCh : out.Stability[i] = "Stable")

\* C30: in the Interactive Simulator the VIF verdict is Critical exactly when
\* |r| >= 0.95, the High Multicollinearity Warning exactly when |r| = 0.90 and
\* Low Multicollinearity at every other slider value; for |r| from 0.70 to
\* 0.85 the correlation label reads "High correlation" while the verdict
\* reads "Low Multicollinearity".
C30_SimulatorVerdict ==
    out.section = "Interactive Simulator" =>
        LET r == Abs(out.correlation)
        IN  /\ (out.verdict = "Critical Multicollinearity Detected!") <=> (r >= 95)
            /\ (out.verdict = "High Multicollinearity Warning") <=> (r = 90)
            /\ (out.verdict = "Good News - Low Multicollinearity!")
                   <=> (r < 90)
            /\ (r >= 70 /\ r <= 85)
                   => /\ out.label = "High correlation - Difficult to measure!"
                      /\ out.verdict = "Good News - Low Multicollinearity!"

\* the slider stands at -0.85: the label reads high correlation, the verdict
\* low multicollinearity
C30_Witness ==
    /\ out.section = "Interactive Simulator"
    /\ out.correlation = 0 - 85
    /\ out.label = "High correlation - Difficult to measure!"
    /\ out.verdict = "Good News - Low Multicollinearity!"

=============================================================================
